---- MODULE Spec2Model ----
(***************************************************************************)
(* A model of the LS-8 emulator of src/ls8/cpu.py: the CPU object's fields *)
(* (ram, reg, pc, ir, mar, mdr, sp), the locals of run(), and the text     *)
(* written to standard output.  One cycle of run() is split into its       *)
(* steps: Fetch, then either Alu or Trace followed by one branch-table     *)
(* handler, then AdvancePC.  A Python exception that leaves run() ends the *)
(* run (status = "fault", err = the exception's name); sys.exit() in       *)
(* handle_hlt ends it with status = "halted".                              *)
(*                                                                         *)
(* Python numbers: a value is a record [f, n, d].  f = FALSE is an int n   *)
(* (d = 1, unbounded).  f = TRUE is a float, which only true division      *)
(* ("/=") creates; it is kept as the fraction n/d in lowest terms, i.e.    *)
(* the real number the double approximates.  d = 0 is None.                *)
(***************************************************************************)
EXTENDS Integers, Sequences, FiniteSets, TLC

\* ------------------------------------------------------------ opcodes
HLT == 1
LDI == 130
PRN == 71
ADD == 160
SUB == 161
MUL == 162
DIV == 163
PUSH == 69
POP == 70

RamSize == 256
NumRegs == 8
StackBase == 243

\* ------------------------------------------------------------ bounds
MaxProgLen == 2
MaxN == 2

\* ------------------------------------------------------------ values
IntV(k) == [f |-> FALSE, n |-> k, d |-> 1]
None == [f |-> FALSE, n |-> 0, d |-> 0]

Abs(k) == IF k < 0 THEN -k ELSE k

RECURSIVE Gcd(_, _)
Gcd(a, b) == IF b = 0 THEN a ELSE Gcd(b, a % b)

\* the float num/den (den # 0), in lowest terms with a positive denominator
FloatV(num, den) ==
    LET s == IF den < 0 THEN -1 ELSE 1
        g == Gcd(Abs(num), Abs(den))
    IN  [f |-> TRUE, n |-> (s * num) \div g, d |-> (s * den) \div g]

IsZero(v) == v.n = 0

\* x + y, x - y, x * y of Python: int when both are int, float otherwise
PyAdd(x, y) ==
    IF ~x.f /\ ~y.f THEN IntV(x.n + y.n)
    ELSE FloatV(x.n * y.d + y.n * x.d, x.d * y.d)

PySub(x, y) ==
    IF ~x.f /\ ~y.f THEN IntV(x.n - y.n)
    ELSE FloatV(x.n * y.d - y.n * x.d, x.d * y.d)

PyMul(x, y) ==
    IF ~x.f /\ ~y.f THEN IntV(x.n * y.n)
    ELSE FloatV(x.n * y.n, x.d * y.d)

\* x / y of Python for y # 0: always a float
PyTrueDiv(x, y) == FloatV(x.n * y.d, x.d * y.n)

\* list indexing of Python: a list of length len accepts -len .. len-1
\* (second definition: an index that wraps round whatever its size)
ValidIndexWrapping(i, len) == TRUE
ValidIndex(i, len) == i >= -len /\ i < len
Index(i, len) == i % len

\* an address taken modulo the memory size instead of being checked
ValidAddrWrapping(a) == TRUE
ValidAddr(a) == ValidIndex(a, RamSize)
Addr(a) == Index(a, RamSize)

\* a value used as a register number: reg[v]
IsIntV(v) == ~v.f /\ v.d = 1
ValidReg(v) == IsIntV(v) /\ ValidIndex(v.n, NumRegs)
RegNo(v) == Index(v.n, NumRegs)

\* ------------------------------------------------------------ decoding
\* instruction >> 6 and (instruction >> 5) & 1, on a Python int
NumOperands(k) == k \div 64
IsAlu(k) == (k \div 32) % 2 = 1

\* the operand count left out of the advance; no advance at all
NextPcOpcodeOnly(p, k) == p + 1
NextPcStuck(p, k) == p
NextPc(p, k) == p + k + 1

\* a stack that moves two cells per push / per pop
PushSpByTwo(s) == s - 2
PushSpUpward(s) == s + 1
PushSpByWord(s) == s - 4
PushSp(s) == s - 1
PopSpByTwo(s) == s + 2
PopSp(s) == s + 1

\* reg[register] = value, and the same with the operands exchanged
LdiStoreSwapped(r, register, value) ==
    [r EXCEPT ![Index(value.n, NumRegs)] = register]
LdiStore(r, register, value) == [r EXCEPT ![RegNo(register)] = value]

BranchTable == {HLT, LDI, PRN, PUSH, POP}
AluOps == {ADD, SUB, MUL, DIV}

\* SUB with its operands exchanged
AluResultSubReversed(op, x, y) ==
    CASE op = ADD -> PyAdd(x, y)
      [] op = SUB -> PySub(y, x)
      [] op = MUL -> PyMul(x, y)
      [] op = DIV -> PyTrueDiv(x, y)

AluResult(op, x, y) ==
    CASE op = ADD -> PyAdd(x, y)
      [] op = SUB -> PySub(x, y)
      [] op = MUL -> PyMul(x, y)
      [] op = DIV -> PyTrueDiv(x, y)

\* ------------------------------------------------------------ text
HexDigit(k) == SubSeq("0123456789ABCDEF", k + 1, k + 1)

RECURSIVE HexDigits(_)
HexDigits(k) == IF k < 16 THEN HexDigit(k) ELSE HexDigits(k \div 16) \o HexDigit(k % 16)

\* "%02X" % k for an int k
Hex02(k) ==
    IF k < 0 THEN "-" \o HexDigits(-k)
    ELSE IF k < 16 THEN "0" \o HexDigit(k)
    ELSE HexDigits(k)

\* str(v) as print() writes it; a float prints as "n.0" when integral (the
\* shortest-repr digits of a non-integral float are written as "n/d")
Str(v) ==
    IF ~v.f THEN ToString(v.n)
    ELSE IF v.d = 1 THEN ToString(v.n) \o ".0"
    ELSE ToString(v.n) \o "/" \o ToString(v.d)

\* ------------------------------------------------------------ programs
\* A program is the sequence of bytes load() stores from address 0 on; each
\* byte is int(line[:8], 2), a number in 0 .. 255.
RECURSIVE Flatten(_)
Flatten(ss) == IF ss = <<>> THEN <<>> ELSE Head(ss) \o Flatten(Tail(ss))

\* The instructions the generic programs are built from.  TLC's integers are
\* 32-bit while Python's are unbounded, so the operands are chosen to keep
\* every value a program of this length can compute below 2^31 (no repeated
\* squaring of R7 = 0xF3).
AluInstrs ==
    {<<ADD, 0, 7>>, <<ADD, 7, 7>>, <<SUB, 0, 7>>, <<MUL, 0, 7>>, <<MUL, 1, 1>>,
     <<DIV, 0, 1>>, <<DIV, 0, 7>>, <<DIV, 7, 7>>}

InstrSet ==
    {<<HLT>>, <<0>>, <<64, 0>>, <<164, 0, 1>>}
    \cup {<<LDI, 0, 8>>, <<LDI, 1, 9>>}
    \cup {<<PRN, 0>>, <<PUSH, 7>>, <<POP, 1>>}
    \cup AluInstrs

GenericPrograms ==
    {Flatten(is) : is \in UNION {[1..k -> InstrSet] : k \in 1..MaxProgLen}}

\* LDI i, v alone, for every register number and a spread of bytes
LdiPrograms == {<<LDI, i, v>> : i \in 0..8, v \in {0, 1, 127, 128, 255}}

\* two loads, then N pushes, then N pops, then HLT
PushRegs == {0, 1, 7}
PopRegs == {0, 1, 2}

StackProgramsOf(k) ==
    {<<LDI, 0, 5, LDI, 1, 6>>
        \o Flatten([i \in 1..k |-> <<PUSH, rs[i]>>])
        \o Flatten([i \in 1..k |-> <<POP, ss[i]>>])
        \o <<HLT>> :
        rs \in [1..k -> PushRegs], ss \in [1..k -> PopRegs]}

StackPrograms == UNION {StackProgramsOf(k) : k \in 1..MaxN}

\* the two example programs
MultProgram == <<LDI, 0, 8, LDI, 1, 9, MUL, 0, 1, PRN, 0, HLT>>
StackProgram == <<LDI, 0, 5, PUSH, 0, LDI, 0, 0, POP, 0, PRN, 0, HLT>>

\* one instruction repeated through the whole of memory
Fill(pattern) == [i \in 1..RamSize |-> pattern[((i - 1) % Len(pattern)) + 1]]

\* k copies of an instruction
Repeat(pattern, k) ==
    [i \in 1..(k * Len(pattern)) |-> pattern[((i - 1) % Len(pattern)) + 1]]
FillPrograms ==
    {Fill(<<LDI, 0, 1>>), Fill(<<PRN, 0>>), Fill(<<PUSH, 0>>), Fill(<<POP, 0>>)}

\* 85 three-byte loads, then one byte at address 255
TopPrograms ==
    {Repeat(<<LDI, 0, 1>>, 85) \o <<b>> : b \in {0, HLT, 164}}

\* programs that bring PC to 254 with HLT there, and to 256
EdgePrograms ==
    {<<PRN, 0>> \o Repeat(<<LDI, 0, 1>>, 84) \o <<HLT>>,
     <<PRN, 0, PRN, 0>> \o Repeat(<<LDI, 0, 1>>, 84)}

\* R1 = the PUSH opcode, R2 = 2, then pushes of R1 and R2 in turn up to
\* address 255: the stack grows down into the program and leaves "PUSH 2"
\* behind, so the pushes go on until PC leaves memory
DeepPushProgram ==
    <<LDI, 1, PUSH, LDI, 2, 2>> \o Repeat(<<PUSH, 1, PUSH, 2>>, 62) \o <<PUSH, 1>>

Programs ==
    GenericPrograms \cup LdiPrograms \cup StackPrograms
    \cup {MultProgram, StackProgram} \cup FillPrograms \cup TopPrograms
    \cup EdgePrograms \cup {DeepPushProgram}

\* memory after load(): the program from address 0, zero elsewhere
Image(prog) ==
    [a \in 0..(RamSize - 1) |-> IF a < Len(prog) THEN IntV(prog[a + 1]) ELSE IntV(0)]

\* ------------------------------------------------------------ state
VARIABLES
    ram,            \* self.ram
    reg,            \* self.reg
    pc,             \* self.pc
    ir,             \* self.ir
    mar,            \* self.mar
    mdr,            \* self.mdr
    sp,             \* self.sp
    num_operands,   \* locals of run()
    operand_a,
    operand_b,
    phase,          \* position in the body of run()'s loop
    status,         \* "running", "halted" (sys.exit), "fault" (exception)
    err,            \* name of the exception that ended the run
    stdout,         \* the text written by print(), one entry per line
    image,          \* history: the program that was loaded
    trail           \* history: one entry per cycle, taken at its fetch

vars == <<ram, reg, pc, ir, mar, mdr, sp, num_operands, operand_a, operand_b,
          phase, status, err, stdout, image, trail>>

Init ==
    \E prog \in Programs :
        /\ ram = Image(prog)
        /\ reg = [i \in 0..(NumRegs - 1) |-> IF i = 7 THEN IntV(StackBase) ELSE IntV(0)]
        /\ pc = 0
        /\ ir = None
        /\ mar = Len(prog)
        /\ mdr = None
        /\ sp = StackBase
        /\ num_operands = 0
        /\ operand_a = None
        /\ operand_b = None
        /\ phase = "fetch"
        /\ status = "running"
        /\ err = "none"
        /\ stdout = <<>>
        /\ image = prog
        /\ trail = <<>>

Raise(e) == status' = "fault" /\ err' = e
NoRaise == UNCHANGED <<status, err>>

\* ------------------------------------------------------------ run(): fetch
\* instruction = ram_read(pc); ir = instruction; num_operands = instruction >> 6;
\* operand_a = ram_read(pc + 1); operand_b = ram_read(pc + 2); classify.
Fetch ==
    /\ status = "running"
    /\ phase = "fetch"
    /\ UNCHANGED <<ram, reg, pc, sp, stdout, image>>
    /\ IF ~ValidAddr(pc)
       THEN /\ Raise("IndexError")
            /\ mar' = pc
            /\ UNCHANGED <<mdr, ir, num_operands, operand_a, operand_b, phase, trail>>
       ELSE LET instruction == ram[Addr(pc)] IN
         IF ~IsIntV(instruction)
         THEN /\ Raise("TypeError")
              /\ mar' = pc
              /\ mdr' = instruction
              /\ ir' = instruction
              /\ UNCHANGED <<num_operands, operand_a, operand_b, phase, trail>>
         ELSE IF ~ValidAddr(pc + 1)
         THEN /\ Raise("IndexError")
              /\ mar' = pc + 1
              /\ mdr' = instruction
              /\ ir' = instruction
              /\ num_operands' = NumOperands(instruction.n)
              /\ UNCHANGED <<operand_a, operand_b, phase, trail>>
         ELSE IF ~ValidAddr(pc + 2)
         THEN /\ Raise("IndexError")
              /\ mar' = pc + 2
              /\ mdr' = ram[Addr(pc + 1)]
              /\ ir' = instruction
              /\ num_operands' = NumOperands(instruction.n)
              /\ operand_a' = ram[Addr(pc + 1)]
              /\ UNCHANGED <<operand_b, phase, trail>>
         ELSE /\ NoRaise
              /\ mar' = pc + 2
              /\ mdr' = ram[Addr(pc + 2)]
              /\ ir' = instruction
              /\ num_operands' = NumOperands(instruction.n)
              /\ operand_a' = ram[Addr(pc + 1)]
              /\ operand_b' = ram[Addr(pc + 2)]
              /\ phase' = IF IsAlu(instruction.n) THEN "alu" ELSE "trace"
              /\ trail' = Append(trail, [pc |-> pc, ir |-> instruction.n,
                                         a |-> ram[Addr(pc + 1)], b |-> ram[Addr(pc + 2)],
                                         sp |-> sp, reg |-> reg,
                                         out |-> Len(stdout)])

\* ------------------------------------------------------------ alu()
\* The if/elif chain on op comes first; then "reg[a] op= reg[b]" reads
\* reg[a], reads reg[b], computes, and stores into reg[a].
\* the exception alu(op, reg_a, reg_b) raises on registers r, or "none"
AluFault(op, a, b, r) ==
    IF op \notin AluOps THEN "Exception"
    ELSE IF ~IsIntV(a) THEN "TypeError"
    ELSE IF ~ValidReg(a) THEN "IndexError"
    ELSE IF ~IsIntV(b) THEN "TypeError"
    ELSE IF ~ValidReg(b) THEN "IndexError"
    ELSE IF op = DIV /\ IsZero(r[RegNo(b)]) THEN "ZeroDivisionError"
    ELSE "none"

\* an if/elif chain without its final else: an unknown op does nothing
AluIgnoresUnknownOp ==
    /\ status = "running"
    /\ phase = "alu"
    /\ UNCHANGED <<ram, pc, ir, mar, mdr, sp, num_operands, operand_a, operand_b,
                   stdout, image, trail>>
    /\ LET e == AluFault(ir.n, operand_a, operand_b, reg) IN
       IF e = "Exception"
       THEN NoRaise /\ reg' = reg /\ phase' = "advance"
       ELSE IF e # "none"
       THEN Raise(e) /\ UNCHANGED <<reg, phase>>
       ELSE /\ NoRaise
            /\ reg' = [reg EXCEPT ![RegNo(operand_a)] =
                          AluResult(ir.n, reg[RegNo(operand_a)], reg[RegNo(operand_b)])]
            /\ phase' = "advance"

\* a guard that skips the division instead of letting it raise
AluSkipsZeroDivisor ==
    /\ status = "running"
    /\ phase = "alu"
    /\ UNCHANGED <<ram, pc, ir, mar, mdr, sp, num_operands, operand_a, operand_b,
                   stdout, image, trail>>
    /\ LET e == AluFault(ir.n, operand_a, operand_b, reg) IN
       IF e = "ZeroDivisionError"
       THEN NoRaise /\ reg' = reg /\ phase' = "advance"
       ELSE IF e # "none"
       THEN Raise(e) /\ UNCHANGED <<reg, phase>>
       ELSE /\ NoRaise
            /\ reg' = [reg EXCEPT ![RegNo(operand_a)] =
                          AluResult(ir.n, reg[RegNo(operand_a)], reg[RegNo(operand_b)])]
            /\ phase' = "advance"

Alu ==
    /\ status = "running"
    /\ phase = "alu"
    /\ UNCHANGED <<ram, pc, ir, mar, mdr, sp, num_operands, operand_a, operand_b,
                   stdout, image, trail>>
    /\ LET e == AluFault(ir.n, operand_a, operand_b, reg) IN
       IF e # "none"
       THEN Raise(e) /\ UNCHANGED <<reg, phase>>
       ELSE /\ NoRaise
            /\ reg' = [reg EXCEPT ![RegNo(operand_a)] =
                          AluResult(ir.n, reg[RegNo(operand_a)], reg[RegNo(operand_b)])]
            /\ phase' = "advance"

\* ------------------------------------------------------------ trace()
TraceHeader(p, b0, b1, b2) ==
    "TRACE: " \o Hex02(p) \o " | " \o Hex02(b0) \o " " \o Hex02(b1) \o " "
    \o Hex02(b2) \o " |"

\* " %02X" for registers 0 .. j-1
RECURSIVE TraceRegs(_, _)
TraceRegs(r, j) == IF j = 0 THEN "" ELSE TraceRegs(r, j - 1) \o " " \o Hex02(r[j - 1].n)

\* the address of the last of trace()'s three ram_read calls, and the same
\* with the calls made in the opposite order
TraceLastReadReversed(p) == p
TraceLastRead(p) == p + 2

\* the registers "%02X" cannot format
BadRegs(r) == {i \in 0..(NumRegs - 1) : ~IsIntV(r[i])}
Min(S) == CHOOSE m \in S : \A k \in S : m <= k

\* The header is printed by one print() after its three ram_read calls; each
\* register is printed by its own print(), so a register that cannot be
\* formatted leaves an unterminated line behind.
Trace ==
    /\ status = "running"
    /\ phase = "trace"
    /\ UNCHANGED <<ram, reg, pc, ir, sp, num_operands, operand_a, operand_b,
                   image, trail>>
    /\ IF ~ValidAddr(pc)
       THEN Raise("IndexError") /\ mar' = pc /\ UNCHANGED <<mdr, stdout, phase>>
       ELSE IF ~ValidAddr(pc + 1)
       THEN /\ Raise("IndexError")
            /\ mar' = pc + 1
            /\ mdr' = ram[Addr(pc)]
            /\ UNCHANGED <<stdout, phase>>
       ELSE IF ~ValidAddr(pc + 2)
       THEN /\ Raise("IndexError")
            /\ mar' = pc + 2
            /\ mdr' = ram[Addr(pc + 1)]
            /\ UNCHANGED <<stdout, phase>>
       ELSE LET b0 == ram[Addr(pc)]
                b1 == ram[Addr(pc + 1)]
                b2 == ram[Addr(pc + 2)]
                header == TraceHeader(pc, b0.n, b1.n, b2.n)
            IN  /\ mar' = TraceLastRead(pc)
                /\ mdr' = ram[Addr(TraceLastRead(pc))]
                /\ IF ~IsIntV(b0) \/ ~IsIntV(b1) \/ ~IsIntV(b2)
                   THEN Raise("TypeError") /\ UNCHANGED <<stdout, phase>>
                   ELSE IF BadRegs(reg) # {}
                   THEN /\ Raise("TypeError")
                        /\ stdout' = Append(stdout,
                                        header \o TraceRegs(reg, Min(BadRegs(reg))))
                        /\ UNCHANGED phase
                   ELSE /\ NoRaise
                        /\ stdout' = Append(stdout,
                                        header \o TraceRegs(reg, NumRegs) \o "\n")
                        /\ phase' = "dispatch"

\* ------------------------------------------------------------ branch table
\* self.branchtable[self.ir]() for an opcode that has no entry
\* an unknown opcode treated as a no-op
UnknownOpcodeSkipped ==
    /\ status = "running"
    /\ phase = "dispatch"
    /\ ir.n \notin BranchTable
    /\ phase' = "advance"
    /\ UNCHANGED <<ram, reg, pc, ir, mar, mdr, sp, num_operands, operand_a,
                   operand_b, status, err, stdout, image, trail>>

UnknownOpcode ==
    /\ status = "running"
    /\ phase = "dispatch"
    /\ ir.n \notin BranchTable
    /\ Raise("KeyError")
    /\ UNCHANGED <<ram, reg, pc, ir, mar, mdr, sp, num_operands, operand_a,
                   operand_b, phase, stdout, image, trail>>

\* a halt handler that returns to the loop instead of leaving it
handle_hlt_returns ==
    /\ status = "running"
    /\ phase = "dispatch"
    /\ ir.n = HLT
    /\ phase' = "advance"
    /\ UNCHANGED <<ram, reg, pc, ir, mar, mdr, sp, num_operands, operand_a,
                   operand_b, status, err, stdout, image, trail>>

handle_hlt ==
    /\ status = "running"
    /\ phase = "dispatch"
    /\ ir.n = HLT
    /\ status' = "halted"
    /\ UNCHANGED <<ram, reg, pc, ir, mar, mdr, sp, num_operands, operand_a,
                   operand_b, phase, err, stdout, image, trail>>

handle_ldi ==
    /\ status = "running"
    /\ phase = "dispatch"
    /\ ir.n = LDI
    /\ UNCHANGED <<ram, pc, ir, sp, num_operands, operand_a, operand_b, stdout,
                   image, trail>>
    /\ IF ~ValidAddr(pc + 1)
       THEN Raise("IndexError") /\ mar' = pc + 1 /\ UNCHANGED <<mdr, reg, phase>>
       ELSE IF ~ValidAddr(pc + 2)
       THEN /\ Raise("IndexError")
            /\ mar' = pc + 2
            /\ mdr' = ram[Addr(pc + 1)]
            /\ UNCHANGED <<reg, phase>>
       ELSE LET register == ram[Addr(pc + 1)]
                value == ram[Addr(pc + 2)]
            IN  /\ mar' = pc + 2
                /\ mdr' = value
                /\ IF ~IsIntV(register)
                   THEN Raise("TypeError") /\ UNCHANGED <<reg, phase>>
                   ELSE IF ~ValidReg(register)
                   THEN Raise("IndexError") /\ UNCHANGED <<reg, phase>>
                   ELSE /\ NoRaise
                        /\ reg' = LdiStore(reg, register, value)
                        /\ phase' = "advance"

handle_prn ==
    /\ status = "running"
    /\ phase = "dispatch"
    /\ ir.n = PRN
    /\ UNCHANGED <<ram, reg, pc, ir, sp, num_operands, operand_a, operand_b,
                   image, trail>>
    /\ IF ~ValidAddr(pc + 1)
       THEN Raise("IndexError") /\ mar' = pc + 1 /\ UNCHANGED <<mdr, stdout, phase>>
       ELSE LET register == ram[Addr(pc + 1)] IN
            /\ mar' = pc + 1
            /\ mdr' = register
            /\ IF ~IsIntV(register)
               THEN Raise("TypeError") /\ UNCHANGED <<stdout, phase>>
               ELSE IF ~ValidReg(register)
               THEN Raise("IndexError") /\ UNCHANGED <<stdout, phase>>
               ELSE /\ NoRaise
                    /\ stdout' = Append(stdout, Str(reg[RegNo(register)]) \o "\n")
                    /\ phase' = "advance"

\* a push that writes at SP and decrements afterwards
handle_push_writes_first ==
    /\ status = "running"
    /\ phase = "dispatch"
    /\ ir.n = PUSH
    /\ UNCHANGED <<reg, pc, ir, num_operands, operand_a, operand_b, stdout,
                   image, trail>>
    /\ sp' = PushSp(sp)
    /\ IF ~ValidAddr(pc + 1)
       THEN Raise("IndexError") /\ mar' = pc + 1 /\ UNCHANGED <<mdr, ram, phase>>
       ELSE LET register == ram[Addr(pc + 1)] IN
            IF ~ValidReg(register)
            THEN /\ Raise(IF IsIntV(register) THEN "IndexError" ELSE "TypeError")
                 /\ mar' = pc + 1
                 /\ mdr' = register
                 /\ UNCHANGED <<ram, phase>>
            ELSE LET value == reg[RegNo(register)] IN
                 /\ mar' = sp
                 /\ mdr' = value
                 /\ IF ~ValidAddr(sp)
                    THEN Raise("IndexError") /\ UNCHANGED <<ram, phase>>
                    ELSE /\ NoRaise
                         /\ ram' = [ram EXCEPT ![Addr(sp)] = value]
                         /\ phase' = "advance"

handle_push ==
    /\ status = "running"
    /\ phase = "dispatch"
    /\ ir.n = PUSH
    /\ UNCHANGED <<reg, pc, ir, num_operands, operand_a, operand_b, stdout,
                   image, trail>>
    /\ sp' = PushSp(sp)
    /\ IF ~ValidAddr(pc + 1)
       THEN Raise("IndexError") /\ mar' = pc + 1 /\ UNCHANGED <<mdr, ram, phase>>
       ELSE LET register == ram[Addr(pc + 1)] IN
            IF ~ValidReg(register)
            THEN /\ Raise(IF IsIntV(register) THEN "IndexError" ELSE "TypeError")
                 /\ mar' = pc + 1
                 /\ mdr' = register
                 /\ UNCHANGED <<ram, phase>>
            ELSE LET value == reg[RegNo(register)] IN
                 /\ mar' = sp'
                 /\ mdr' = value
                 /\ IF ~ValidAddr(sp')
                    THEN Raise("IndexError") /\ UNCHANGED <<ram, phase>>
                    ELSE /\ NoRaise
                         /\ ram' = [ram EXCEPT ![Addr(sp')] = value]
                         /\ phase' = "advance"

handle_pop ==
    /\ status = "running"
    /\ phase = "dispatch"
    /\ ir.n = POP
    /\ UNCHANGED <<ram, pc, ir, num_operands, operand_a, operand_b, stdout,
                   image, trail>>
    /\ IF ~ValidAddr(sp)
       THEN Raise("IndexError") /\ mar' = sp /\ UNCHANGED <<mdr, reg, sp, phase>>
       ELSE IF ~ValidAddr(pc + 1)
       THEN /\ Raise("IndexError")
            /\ mar' = pc + 1
            /\ mdr' = ram[Addr(sp)]
            /\ UNCHANGED <<reg, sp, phase>>
       ELSE LET value == ram[Addr(sp)]
                register == ram[Addr(pc + 1)]
            IN  /\ mar' = pc + 1
                /\ mdr' = register
                /\ IF ~ValidReg(register)
                   THEN /\ Raise(IF IsIntV(register) THEN "IndexError" ELSE "TypeError")
                        /\ UNCHANGED <<reg, sp, phase>>
                   ELSE /\ NoRaise
                        /\ reg' = [reg EXCEPT ![RegNo(register)] = value]
                        /\ sp' = PopSp(sp)
                        /\ phase' = "advance"

\* ------------------------------------------------------------ run(): advance
\* self.pc += num_operands + 1
AdvancePC ==
    /\ status = "running"
    /\ phase = "advance"
    /\ pc' = NextPc(pc, num_operands)
    /\ phase' = "fetch"
    /\ UNCHANGED <<ram, reg, ir, mar, mdr, sp, num_operands, operand_a, operand_b,
                   status, err, stdout, image, trail>>

Next ==
    \/ Fetch
    \/ Alu
    \/ Trace
    \/ UnknownOpcode
    \/ handle_hlt
    \/ handle_ldi
    \/ handle_prn
    \/ handle_push
    \/ handle_pop
    \/ AdvancePC

Spec == Init /\ [][Next]_vars

\* run() is a plain loop: while the run has not ended, its next step is taken
FairSpec == Spec /\ WF_vars(Next)

TypeOK ==
    /\ status \in {"running", "halted", "fault"}
    /\ phase \in {"fetch", "alu", "trace", "dispatch", "advance"}
    /\ pc \in Int /\ sp \in Int

\* ------------------------------------------------------------ properties
\* the cycle whose fetch was the last to succeed
Cur == trail[Len(trail)]
Started == Len(trail) >= 1

\* bit i of a byte
Bit(k, i) == (k \div (2 ^ i)) % 2

\* the fetched byte is outside the arithmetic class and has no handler
UnknownByte(v) == v # None /\ IsIntV(v) /\ Bit(v.n, 5) = 0 /\ v.n \notin BranchTable

\* v is the real number p / q  (q > 0)
IsNumber(v, p, q) == v # None /\ v.n * q = p * v.d

\* C1: a cycle that runs a non-halt instruction to its end moves PC by
\* 1 + k, k being the top two bits of the byte fetched at PC, for ALU and
\* branch-table instructions alike; no other step of a cycle changes PC.
C1_PcAdvance ==
    [][IF phase = "advance"
       THEN /\ Cur.ir \in 0..255
            /\ pc' = Cur.pc + 1 + (2 * Bit(Cur.ir, 7) + Bit(Cur.ir, 6))
            /\ Cur.pc = pc
       ELSE pc' = pc]_vars

C1_Witness ==
    /\ status = "running" /\ phase = "fetch" /\ Len(trail) = 2
    /\ trail[1].ir = PUSH /\ trail[1].pc = 0
    /\ trail[2].ir = MUL /\ trail[2].pc = 2 /\ trail[2].sp = StackBase - 1
    /\ pc = 5

\* C2: once HLT is the byte fetched at PC, the cycle ends the run: PC,
\* registers, memory and SP keep their values, the cycle never reaches the
\* PC advance, and nothing is fetched afterwards.
C2_Halt ==
    [][/\ ir' = IntV(HLT) =>
            /\ pc' = pc /\ reg' = reg /\ ram' = ram /\ sp' = sp
            /\ (status' = "running" => phase' \in {"trace", "dispatch"})
       /\ ir = IntV(HLT) => (trail' = trail /\ ir' = ir)
       /\ (phase = "dispatch" /\ ir = IntV(HLT)) => status' = "halted"]_vars

C2_Witness ==
    /\ status = "halted" /\ Len(trail) = 1 /\ Cur.ir = HLT
    /\ pc = 0 /\ ram[1] = IntV(PUSH) /\ ram[2] = IntV(7)
    /\ ram[StackBase - 1] = IntV(0) /\ sp = StackBase
    /\ reg = Cur.reg

\* C3: LDI with operand bytes i in 0..7 and v puts v in register i and
\* changes no other register, no memory cell and not SP.
C3_Ldi ==
    [][(phase = "dispatch" /\ ir = IntV(LDI) /\ ram[Addr(pc + 1)].n \in 0..7) =>
          LET i == ram[Addr(pc + 1)].n
              v == ram[Addr(pc + 2)]
          IN  /\ status' = "running"
              /\ reg'[i] = v
              /\ \A j \in 0..(NumRegs - 1) : j # i => reg'[j] = reg[j]
              /\ ram' = ram
              /\ sp' = sp]_vars

C3_Witness ==
    /\ phase = "advance" /\ Started /\ Cur.ir = LDI
    /\ Cur.a = IntV(7) /\ Cur.b = IntV(255)
    /\ reg[7] = IntV(255) /\ Cur.reg[7] = IntV(StackBase)
    /\ sp = StackBase

\* the number ADD, SUB or MUL is to leave in register a
Combined(op, x, y, v) ==
    CASE op = ADD -> IsNumber(v, x.n * y.d + y.n * x.d, x.d * y.d)
      [] op = SUB -> IsNumber(v, x.n * y.d - y.n * x.d, x.d * y.d)
      [] op = MUL -> IsNumber(v, x.n * y.n, x.d * y.d)

AluCase == phase = "alu" /\ ir.n \in {ADD, SUB, MUL}
           /\ operand_a.n \in 0..7 /\ operand_b.n \in 0..7

\* C4 as stated: after ADD/SUB/MUL a,b (a = b included) register a holds the
\* combination of the old values and register b holds its old value.
C4_AsStated ==
    [][AluCase =>
          /\ Combined(ir.n, reg[operand_a.n], reg[operand_b.n], reg'[operand_a.n])
          /\ reg'[operand_b.n] = reg[operand_b.n]]_vars

\* C4 (amended): after ADD/SUB/MUL a,b register a holds the combination of
\* the old values of a and b, and every register other than a - register b
\* whenever a # b - holds its old value.
C4_Alu ==
    [][AluCase =>
          /\ status' = "running"
          /\ Combined(ir.n, reg[operand_a.n], reg[operand_b.n], reg'[operand_a.n])
          /\ \A j \in 0..(NumRegs - 1) : j # operand_a.n => reg'[j] = reg[j]]_vars

C4_Witness ==
    /\ phase = "advance" /\ Len(trail) = 2
    /\ trail[1].ir = ADD /\ trail[1].a = IntV(7) /\ trail[1].b = IntV(7)
    /\ Cur.ir = SUB /\ Cur.a = IntV(0) /\ Cur.b = IntV(7)
    /\ reg[7] = IntV(2 * StackBase) /\ reg[0] = IntV(-2 * StackBase)

\* every entry of the trail is a finished cycle
AtCycleEnd == phase \in {"fetch", "advance"}

\* C5: PUSH r directly followed by POP s, r # s, leaves SP where it was
\* before the PUSH and register s with the value register r had.
C5_PushPop ==
    LET n == Len(trail) IN
    (/\ AtCycleEnd /\ n >= 2
     /\ trail[n - 1].ir = PUSH /\ trail[n].ir = POP
     /\ RegNo(trail[n - 1].a) # RegNo(trail[n].a))
    => /\ sp = trail[n - 1].sp
       /\ reg[RegNo(trail[n].a)] = trail[n - 1].reg[RegNo(trail[n - 1].a)]

C5_Witness ==
    /\ AtCycleEnd /\ Len(trail) = 5
    /\ trail[3].ir = PUSH /\ trail[3].a = IntV(1)
    /\ trail[4].ir = PUSH /\ trail[4].a = IntV(0)
    /\ trail[5].ir = POP /\ trail[5].a = IntV(2)
    /\ reg[2] = IntV(5) /\ sp = StackBase - 1

\* the registers as they are right after cycle i of the trail
RegAfter(i) == IF i < Len(trail) THEN trail[i + 1].reg ELSE reg

\* the last 2N cycles are N pushes followed by N pops
PushesThenPops(N) ==
    LET n == Len(trail) IN
    /\ AtCycleEnd /\ n >= 2 * N
    /\ \A j \in 1..N : trail[n - 2 * N + j].ir = PUSH
    /\ \A k \in 1..N : trail[n - N + k].ir = POP

\* C6: N pushes of v1..vN followed by N pops put SP back where it was before
\* the first push, and the k-th pop yields v(N+1-k).
C6_Lifo ==
    \A N \in 1..MaxN :
        PushesThenPops(N) =>
            LET n == Len(trail)
                first == n - 2 * N
                pushed(j) == trail[first + j].reg[RegNo(trail[first + j].a)]
                popped(k) == RegAfter(n - N + k)[RegNo(trail[n - N + k].a)]
            IN  /\ sp = trail[first + 1].sp
                /\ \A k \in 1..N : popped(k) = pushed(N + 1 - k)

C6_Witness ==
    /\ PushesThenPops(2) /\ Len(trail) = 6
    /\ trail[3].a = IntV(0) /\ trail[4].a = IntV(1)
    /\ trail[5].a = IntV(2) /\ trail[6].a = IntV(0)
    /\ trail[6].reg[2] = IntV(6) /\ reg[0] = IntV(5) /\ reg[2] = IntV(6)
    /\ sp = StackBase

\* C7: LDI R0,8; LDI R1,9; MUL R0,R1; PRN R0; HLT writes exactly 72 to the
\* output and ends by HLT, without a fault.
C7_MultOutput ==
    (image = MultProgram /\ status # "running") =>
        (status = "halted" /\ stdout = <<"72\n">>)

\* C8: LDI R0,5; PUSH R0; LDI R0,0; POP R0; PRN R0; HLT writes exactly 5 to
\* the output and ends by HLT with SP back at 0xF3.
C8_StackOutput ==
    (image = StackProgram /\ status # "running") =>
        (status = "halted" /\ stdout = <<"5\n">> /\ sp = StackBase)

\* C9: DIV a,b with register b holding 0 ends the run in a division fault:
\* PC is not advanced, every register keeps its value, nothing runs after.
C9_DivByZero ==
    [][/\ (phase = "alu" /\ ir = IntV(DIV)
           /\ operand_a.n \in 0..7 /\ operand_b.n \in 0..7
           /\ IsNumber(reg[operand_b.n], 0, 1)) =>
              /\ status' = "fault" /\ err' = "ZeroDivisionError"
              /\ pc' = pc /\ reg' = reg /\ phase' = phase
       /\ err # "ZeroDivisionError"]_vars

C9_Witness ==
    /\ status = "fault" /\ err = "ZeroDivisionError" /\ phase = "alu"
    /\ Len(trail) = 2 /\ trail[1].ir = LDI /\ Cur.ir = DIV
    /\ Cur.a = IntV(0) /\ Cur.b = IntV(1)
    /\ reg[0] = IntV(8) /\ reg[1] = IntV(0) /\ pc = Cur.pc

\* C10 as stated: a fetched byte with bit 5 clear that is none of HLT, LDI,
\* PRN, PUSH, POP ends the cycle in the unknown-opcode fault, with PC,
\* registers, memory and SP unchanged and the instruction not skipped.
C10_AsStated ==
    [][UnknownByte(ir') =>
          /\ pc' = pc /\ reg' = reg /\ ram' = ram /\ sp' = sp
          /\ phase' # "advance"
          /\ (status' # "running" => (status' = "fault" /\ err' = "KeyError"))]_vars

\* C10 (amended): such a byte always ends the cycle in a fault, with PC,
\* registers, memory and SP unchanged and the instruction not skipped; the
\* fault is the branch-table lookup fault whenever the cycle gets as far as
\* the dispatch, and otherwise the bounds fault of the operand pre-fetch or
\* the formatting fault of trace().
C10_UnknownOpcode ==
    [][UnknownByte(ir') =>
          /\ pc' = pc /\ reg' = reg /\ ram' = ram /\ sp' = sp
          /\ phase' # "advance"
          /\ (status' = "running" => phase' \in {"trace", "dispatch"})
          /\ (status' # "running" =>
                (status' = "fault" /\ err' \in {"KeyError", "IndexError", "TypeError"}))
          /\ (phase = "dispatch" => (status' = "fault" /\ err' = "KeyError"))
          /\ (err' = "IndexError" => phase = "fetch")
          /\ (err' = "TypeError" => phase = "trace")]_vars

C10_Witness ==
    /\ status = "fault" /\ err = "KeyError" /\ phase = "dispatch"
    /\ Len(trail) = 2 /\ trail[1].ir = LDI /\ Cur.ir = 64
    /\ pc = Cur.pc /\ pc = 3 /\ reg = Cur.reg /\ sp = Cur.sp

\* the fetched byte is of the arithmetic class and is no ALU operation
UnsupportedByte(v) == v # None /\ IsIntV(v) /\ Bit(v.n, 5) = 1 /\ v.n \notin AluOps

InMemory(a) == a \in 0..(RamSize - 1)

\* C11 as stated: a fetched byte with bit 5 set that is none of ADD, SUB,
\* MUL, DIV ends the cycle in the unsupported-operation fault, with no
\* register modified and PC not advanced.
C11_AsStated ==
    [][UnsupportedByte(ir') =>
          /\ pc' = pc /\ reg' = reg
          /\ phase' # "advance"
          /\ (status' # "running" => (status' = "fault" /\ err' = "Exception"))]_vars

\* C11 (amended): such a byte always ends the cycle in a fault, with no
\* register modified and PC not advanced; the fault is the
\* unsupported-operation fault whenever the operand pre-fetch completes, and
\* the bounds fault of the pre-fetch when the byte sits at address 254 or 255.
C11_Unsupported ==
    [][UnsupportedByte(ir') =>
          /\ pc' = pc /\ reg' = reg
          /\ phase' # "advance"
          /\ (status' = "running" => phase' = "alu")
          /\ (status' # "running" =>
                (status' = "fault" /\ err' \in {"Exception", "IndexError"}))
          /\ (phase = "alu" => (status' = "fault" /\ err' = "Exception"))
          /\ (err' = "IndexError" => (phase = "fetch" /\ pc >= RamSize - 2))
          /\ (phase = "fetch" /\ pc < RamSize - 2 => status' = "running")]_vars

C11_Witness ==
    /\ status = "fault" /\ err = "Exception" /\ phase = "alu"
    /\ Len(trail) = 2 /\ trail[1].ir = LDI /\ Cur.ir = 164
    /\ pc = 3 /\ pc = Cur.pc /\ reg = Cur.reg /\ reg[0] = IntV(8)

\* C12: every memory access of a run - fetch at PC, operand reads at PC+1
\* and PC+2, the write of PUSH at SP, the read of POP at SP - is at an
\* address in 0..255 unless the step ends the run in a fault; a PUSH changes
\* the cell at its address and no other.
C12_Bounds ==
    [][status' # "fault" =>
          /\ InMemory(mar')
          /\ (phase \in {"fetch", "trace"} =>
                (InMemory(pc) /\ InMemory(pc + 1) /\ InMemory(pc + 2)))
          /\ (phase = "dispatch" /\ ir.n \in {LDI, PRN, PUSH, POP} => InMemory(pc + 1))
          /\ (phase = "dispatch" /\ ir.n = LDI => InMemory(pc + 2))
          /\ (phase = "dispatch" /\ ir.n = PUSH =>
                /\ InMemory(sp - 1) /\ mar' = sp - 1
                /\ \A a \in 0..(RamSize - 1) : a # sp - 1 => ram'[a] = ram[a])
          /\ (phase = "dispatch" /\ ir.n = POP =>
                (InMemory(sp) /\ reg'[RegNo(ram[pc + 1])] = ram[sp]))]_vars

C12_Witness ==
    /\ status = "fault" /\ err = "IndexError" /\ phase = "dispatch"
    /\ Cur.ir = POP /\ sp = RamSize /\ mar = RamSize
    /\ Len(trail) = 14 /\ reg = Cur.reg

\* C13: PRN r appends one entry, the value of register r, to the output and
\* changes no register, memory cell or SP; no other step adds to the output.
C13_PrnOnlyOutput ==
    [][IF phase = "dispatch" /\ ir.n = PRN /\ ValidReg(ram[Addr(pc + 1)])
       THEN /\ stdout' = Append(stdout, Str(reg[RegNo(ram[Addr(pc + 1)])]) \o "\n")
            /\ reg' = reg /\ ram' = ram /\ sp' = sp
       ELSE stdout' = stdout]_vars

\* C14: PUSH r decrements SP by 1 and then writes register r at the new SP,
\* changing no register and no other cell; POP r copies the cell at SP into
\* register r and then increments SP by 1, changing no cell and no other
\* register.
C14_StackDiscipline ==
    [][(phase = "dispatch" /\ status' = "running") =>
          LET r == RegNo(ram[Addr(pc + 1)]) IN
          /\ ir.n = PUSH =>
                /\ sp' = sp - 1
                /\ ram'[Addr(sp - 1)] = reg[r]
                /\ \A a \in 0..(RamSize - 1) : a # Addr(sp - 1) => ram'[a] = ram[a]
                /\ reg' = reg
          /\ ir.n = POP =>
                /\ sp' = sp + 1
                /\ reg'[r] = ram[Addr(sp)]
                /\ \A j \in 0..(NumRegs - 1) : j # r => reg'[j] = reg[j]
                /\ ram' = ram]_vars

C14_Witness ==
    /\ phase = "advance" /\ Len(trail) = 2
    /\ trail[1].ir = PUSH /\ trail[1].a = IntV(7) /\ trail[1].sp = StackBase
    /\ Cur.ir = POP /\ Cur.a = IntV(1) /\ Cur.sp = StackBase - 1
    /\ ram[StackBase - 1] = IntV(StackBase) /\ ram[StackBase] = IntV(0)
    /\ reg[1] = IntV(StackBase) /\ Cur.reg[1] = IntV(0) /\ sp = StackBase

\* C15: SP starts at register 7's seed 0xF3 and only PUSH (by -1) and POP
\* (by +1) change it - not HLT, LDI, PRN or an ALU instruction, even when they
\* write register 7; PUSH and POP leave register 7 alone unless POP names it.
C15_SpFrame ==
    [][/\ trail = <<>> => (sp = StackBase /\ reg[7] = IntV(StackBase))
       /\ sp' # sp =>
            /\ phase = "dispatch"
            /\ \/ ir.n = PUSH /\ sp' = sp - 1
               \/ ir.n = POP /\ sp' = sp + 1
       /\ (phase = "dispatch" /\ ir.n \in {PUSH, POP} /\ reg'[7] # reg[7]) =>
            (ir.n = POP /\ RegNo(ram[Addr(pc + 1)]) = 7)]_vars

C15_Witness ==
    /\ phase = "advance" /\ Len(trail) = 2
    /\ trail[1].ir = ADD /\ trail[1].a = IntV(7) /\ trail[1].sp = StackBase
    /\ Cur.ir = PUSH /\ Cur.sp = StackBase
    /\ reg[7] = IntV(2 * StackBase) /\ sp = StackBase - 1

\* C16: with a program image of bytes, every memory cell holds an integer
\* in 0..255 in every reachable state.
C16_ByteCells ==
    \A a \in 0..(RamSize - 1) : IsIntV(ram[a]) /\ ram[a].n \in 0..255

\* C17: a cycle that begins with PC >= 254 ends in the bounds fault of the
\* fetch / operand pre-fetch, before trace and dispatch, whatever the byte at
\* PC is; registers, memory, PC and SP keep their values.
C17_TopOfMemory ==
    [][(phase = "fetch" /\ pc >= RamSize - 2) =>
          /\ status' = "fault" /\ err' = "IndexError"
          /\ mar' = RamSize
          /\ reg' = reg /\ ram' = ram /\ pc' = pc /\ sp' = sp
          /\ stdout' = stdout /\ trail' = trail /\ phase' = phase]_vars

C17_Witness ==
    /\ status = "fault" /\ err = "IndexError" /\ phase = "fetch"
    /\ pc = RamSize - 2 /\ ram[pc] = IntV(HLT) /\ ir = IntV(HLT)
    /\ mar = RamSize /\ Len(trail) = 85 /\ Cur.pc = pc - 3

\* C18: trace(), when it returns, leaves memory, the registers, PC, SP, MAR
\* and MDR as they were when it was called, so the handler that follows sees
\* the state of the fetch.
C18_TraceFrame ==
    [][(phase = "trace" /\ status' = "running") =>
          /\ phase' = "dispatch"
          /\ ram' = ram /\ reg' = reg /\ pc' = pc /\ sp' = sp
          /\ mar' = mar /\ mdr' = mdr /\ ir' = ir
          /\ reg' = Cur.reg /\ sp' = Cur.sp /\ pc' = Cur.pc]_vars

C18_Witness ==
    /\ status = "running" /\ phase = "dispatch"
    /\ Len(trail) = 2 /\ trail[1].ir = LDI /\ Cur.ir = PUSH /\ Cur.a = IntV(7)
    /\ Len(stdout) = 2 /\ mar = pc + 2 /\ mdr = ram[pc + 2]
    /\ reg = Cur.reg /\ sp = StackBase /\ pc = 3

\* C19: run() terminates: PC never decreases, every finished cycle increases
\* it, so no address is executed twice, at most 256 cycles start, and the run
\* ends by HLT or by a fault.
C19_Terminates ==
    /\ <>(status # "running")
    /\ [][/\ pc' >= pc
          /\ phase = "advance" => pc' > pc
          /\ (phase = "fetch" /\ trail # <<>> /\ trail' # trail) => pc > Cur.pc
          /\ Len(trail') <= RamSize]_vars

C19_Witness ==
    /\ status = "fault" /\ err = "IndexError" /\ phase = "fetch"
    /\ pc = RamSize - 2 /\ Len(trail) = 127
    /\ \A i \in 1..126 : trail[i].pc < trail[i + 1].pc

\* C20: SP never becomes negative: a push costs two bytes of PC, so SP is
\* never further below 0xF3 than half of what PC has covered.
C20_SpNonNegative ==
    /\ sp > 0
    /\ 2 * (StackBase - sp) <= pc + 2
    /\ (status = "running" => pc <= RamSize)

C20_Witness ==
    /\ status = "fault" /\ err = "IndexError" /\ phase = "fetch"
    /\ pc = RamSize - 2 /\ sp = 119 /\ Len(trail) = 126
    /\ Cur.ir = PUSH /\ ram[sp] = IntV(2)

====
